---------------------------- MODULE Spec2Model ----------------------------
(***************************************************************************)
(* A model of the EuroFencing scraper (src/eurofencing_scraper.py).        *)
(*                                                                         *)
(* Text is modelled as a sequence of one-character strings, so that the    *)
(* string functions the parser relies on (strip, isdigit, replace, int,    *)
(* float, lower, "in") are computed the way Python computes them.          *)
(*                                                                         *)
(* The specifications share the variables and the actions:                 *)
(*   Spec          one call of scrape_all_fencers or scrape_all_rankings   *)
(*   SpecParse     the row loops of scrape_fencers_page / scrape_rankings  *)
(*                 on rows drawn from bounded sets of cell texts           *)
(*   SpecMain      one run of main()                                       *)
(*   FairSpecMain  runs of main() that go on while they can (progress)     *)
(*   SpecApi       any sequence of method calls on one instance            *)
(*   FairSpecFencers  one call of scrape_all_fencers that goes on while it  *)
(*                 can (progress)                                          *)
(***************************************************************************)
EXTENDS Integers, Sequences, FiniteSets, TLC

(***************************************************************************)
(*                              TEXT                                       *)
(***************************************************************************)

\* str.strip() removes these from both ends.
Whitespace == {" "}

\* The characters int() and float() read as decimal digits.
DecimalDigits == {"0", "1", "2", "3", "4", "5", "6", "7", "8", "9"}

\* Characters for which str.isdigit() is true although int() and float()
\* reject them; "SUP2" stands for the one character U+00B2 (superscript two).
SuperscriptDigits == {"SUP2"}

RECURSIVE LStrip(_)
LStrip(s) ==
    IF s # <<>> /\ Head(s) \in Whitespace THEN LStrip(Tail(s)) ELSE s

RECURSIVE RStrip(_)
RStrip(s) ==
    IF s # <<>> /\ s[Len(s)] \in Whitespace
    THEN RStrip(SubSeq(s, 1, Len(s) - 1))
    ELSE s

\* cells[i].text.strip()
Strip(s) == RStrip(LStrip(s))

\* str.isdigit(): non-empty and every character is a digit character.
IsDigit(s) ==
    /\ s # <<>>
    /\ \A i \in 1..Len(s) : s[i] \in DecimalDigits \cup SuperscriptDigits

\* str.replace('.', '')
ReplaceDot(s) == SelectSeq(s, LAMBDA c : c # ".")

DigitVal(c) ==
    CASE c = "0" -> 0 [] c = "1" -> 1 [] c = "2" -> 2 [] c = "3" -> 3
      [] c = "4" -> 4 [] c = "5" -> 5 [] c = "6" -> 6 [] c = "7" -> 7
      [] c = "8" -> 8 [] c = "9" -> 9

AllDecimal(s) == \A i \in 1..Len(s) : s[i] \in DecimalDigits

RECURSIVE DecimalValue(_)
DecimalValue(s) ==
    IF s = <<>> THEN 0
    ELSE 10 * DecimalValue(SubSeq(s, 1, Len(s) - 1)) + DigitVal(s[Len(s)])

\* int(s) accepts an optional sign followed by decimal digits; anything else
\* is a ValueError.
IntBody(s) == IF s # <<>> /\ Head(s) \in {"+", "-"} THEN Tail(s) ELSE s
IntValid(s) == IntBody(s) # <<>> /\ AllDecimal(IntBody(s))
IntValue(s) ==
    IF s # <<>> /\ Head(s) = "-"
    THEN 0 - DecimalValue(IntBody(s))
    ELSE DecimalValue(IntBody(s))

\* float(s) accepts an optional sign, then decimal digits with at most one
\* decimal point and at least one digit (exponents, inf and nan never get
\* past the isdigit guard and are left out).
DotCount(s) == Len(SelectSeq(s, LAMBDA c : c = "."))
FloatValid(s) ==
    /\ DotCount(IntBody(s)) <= 1
    /\ ReplaceDot(IntBody(s)) # <<>>
    /\ AllDecimal(ReplaceDot(IntBody(s)))

\* A decimal value m * 10^-e, normalised so that equal numbers are equal
\* values (7.50 = 7.5).
RECURSIVE Normalise(_, _)
Normalise(m, e) ==
    IF e > 0 /\ m % 10 = 0 THEN Normalise(m \div 10, e - 1)
    ELSE [m |-> m, e |-> e]

RECURSIVE FracLen(_)
FracLen(s) ==
    IF s = <<>> \/ s[Len(s)] = "." THEN 0
    ELSE 1 + FracLen(SubSeq(s, 1, Len(s) - 1))

FloatValue(s) ==
    LET body == IntBody(s)
        mag  == Normalise(DecimalValue(ReplaceDot(body)),
                          IF DotCount(body) = 0 THEN 0 ELSE FracLen(body))
    IN  IF s # <<>> /\ Head(s) = "-" THEN [m |-> 0 - mag.m, e |-> mag.e]
        ELSE mag

\* The sentinels of the conditional expressions: 0 and 0.0.
IntZero == 0
FloatZero == [m |-> 0, e |-> 0]

\* str.lower() on the letters the model uses.
LowerChar(c) ==
    CASE c = "M" -> "m" [] c = "E" -> "e" [] c = "N" -> "n"
      [] c = "W" -> "w" [] c = "O" -> "o" [] c = "F" -> "f"
      [] OTHER -> c
Lower(s) == [i \in 1..Len(s) |-> LowerChar(s[i])]

\* sub in s
Contains(sub, s) ==
    \E i \in 0..(Len(s) - Len(sub)) : SubSeq(s, i + 1, i + Len(sub)) = sub


(***************************************************************************)
(*                         RECORDS AND ROW PARSING                         *)
(***************************************************************************)

\* The cell one place to the right (the first one after the last).
\* ScenarioRowParses must tell it from Cell.
CellShifted(cells, i) == cells[IF i + 2 <= Len(cells) THEN i + 2 ELSE 1]

\* cells[i] with the source's 0-based index.
Cell(cells, i) == cells[i + 1]

\* The gender of a FencerProfile, derived from the search's gender filter.
GenderOf(gender) ==
    IF Contains(<<"m", "e", "n">>, Lower(gender)) THEN <<"M">>
    ELSE IF Contains(<<"w", "o", "m", "e", "n">>, Lower(gender)) THEN <<"F">>
    ELSE <<>>

\* birth_year and rank: int(text) if text.isdigit() else 0.  "ValueError"
\* is int() raising on a text that got past the isdigit guard.
IntCell(text) ==
    IF IsDigit(text)
    THEN IF IntValid(text) THEN [ok |-> TRUE, v |-> IntValue(text)]
         ELSE [ok |-> FALSE, v |-> IntZero]
    ELSE [ok |-> TRUE, v |-> IntZero]

\* A coefficient read without the length test: on a row without a seventh
\* cell cells[6] raises IndexError and the row is skipped.
\* SixCellRankingRowAccepted must tell it from FloatCell.
FloatCellUnguarded(cells) ==
    IF Len(cells) > 6
    THEN IF IsDigit(ReplaceDot(Strip(Cell(cells, 6))))
         THEN IF FloatValid(Strip(Cell(cells, 6)))
              THEN [ok |-> TRUE, v |-> FloatValue(Strip(Cell(cells, 6)))]
              ELSE [ok |-> FALSE, v |-> FloatZero]
         ELSE [ok |-> TRUE, v |-> FloatZero]
    ELSE [ok |-> FALSE, v |-> FloatZero]

\* coefficient: float(text) if len(cells) > 6 and
\* text.replace('.','').isdigit() else 0.0
FloatCell(cells) ==
    IF Len(cells) > 6 /\ IsDigit(ReplaceDot(Strip(Cell(cells, 6))))
    THEN IF FloatValid(Strip(Cell(cells, 6)))
         THEN [ok |-> TRUE, v |-> FloatValue(Strip(Cell(cells, 6)))]
         ELSE [ok |-> FALSE, v |-> FloatZero]
    ELSE [ok |-> TRUE, v |-> FloatZero]

\* The minimum cell counts of the two row loops.
MinFencerCells == 7
MinRankingCells == 6

\* The body of the fencer row loop for one row: "record" with the
\* FencerProfile built, "short" when the length test fails, "ValueError"
\* when the constructor's arguments raise (caught, the row is skipped).
ParseFencerRow(cells, gender) ==
    IF Len(cells) >= MinFencerCells
    THEN IF IntCell(Strip(Cell(cells, 5))).ok
         THEN [kind |-> "record",
               rec |-> [licence    |-> Strip(Cell(cells, 0)),
                        last_name  |-> Strip(Cell(cells, 1)),
                        first_name |-> Strip(Cell(cells, 2)),
                        club       |-> Strip(Cell(cells, 3)),
                        nation     |-> Strip(Cell(cells, 4)),
                        birth_year |-> IntCell(Strip(Cell(cells, 5))).v,
                        gender     |-> GenderOf(gender),
                        handedness |-> IF Len(cells) > 6
                                       THEN Strip(Cell(cells, 6)) ELSE <<>>]]
         ELSE [kind |-> "ValueError"]
    ELSE [kind |-> "short"]

\* The body of the ranking row loop for one row.
ParseRankingRow(cells, gender, weapon, age_category, season) ==
    IF Len(cells) >= MinRankingCells
    THEN IF IntCell(Strip(Cell(cells, 0))).ok /\ FloatCell(cells).ok
         THEN [kind |-> "record",
               rec |-> [rank        |-> IntCell(Strip(Cell(cells, 0))).v,
                        competition |-> Strip(Cell(cells, 1)),
                        venue       |-> Strip(Cell(cells, 2)),
                        nation      |-> Strip(Cell(cells, 3)),
                        category    |-> Strip(Cell(cells, 4)),
                        discipline  |-> Strip(Cell(cells, 5)),
                        coefficient |-> FloatCell(cells).v,
                        season      |-> season,
                        weapon      |-> weapon,
                        age_group   |-> age_category,
                        gender      |-> gender]]
         ELSE [kind |-> "ValueError"]
    ELSE [kind |-> "short"]


(***************************************************************************)
(*                        CONFIGURATION AND BOUNDS                         *)
(***************************************************************************)

\* Python's None where an int is expected (max_pages, limit_combinations).
PyNone == -1

\* "if x and ...": None and 0 are both false.
Truthy(x) == x # PyNone /\ x # 0

\* Country codes, and the other configured labels, are never taken apart by
\* the program: they are strings.  Chars gives the text of a code as the
\* site shows it in a cell.
FRA == "FRA"
GER == "GER"
QAT == "QAT"
UAE == "UAE"
SAU == "SAU"
Chars(code) ==
    CASE code = "FRA" -> <<"F", "R", "A">>
      [] code = "GER" -> <<"G", "E", "R">>
      [] code = "QAT" -> <<"Q", "A", "T">>
      [] code = "UAE" -> <<"U", "A", "E">>
      [] code = "SAU" -> <<"S", "A", "U">>

\* The fallback of main() when country discovery returns nothing.
DefaultCountries == <<QAT, UAE, SAU, FRA, GER>>

\* The arguments main() passes to the two sweeps.
MainMaxPages == 2
MainSampleCountries == 5
MainLimitCombinations == 10

\* scrape_all_fencers takes the first 10 configured countries when it is
\* given none.
DemoCountryLimit == 10

\* The longest season list the model enumerates (the program configures 8
\* seasons), the most pages the site holds for one country, and the largest
\* page ceiling tried.
MaxSeasons == 2
MaxSitePages == 2
MaxPagesArg == 2

\* self.filter_config
Genders == <<"men", "women">>
Weapons == <<"foil", "epee", "sabre">>
AgeCategories == <<"cadet", "u23", "u14">>
AllSeasons == <<"2025", "2024", "2023", "2022", "2021", "2020", "2019", "2018">>
Min(a, b) == IF a <= b THEN a ELSE b
Seasons == SubSeq(AllSeasons, 1, Min(MaxSeasons, Len(AllSeasons)))

\* The number of gender x weapon x age_category x season combinations.
TotalCombinations == Len(Genders) * Len(Weapons) * Len(AgeCategories) * Len(Seasons)

(***************************************************************************)
(*                                 STATE                                   *)
(***************************************************************************)

VARIABLES
    \* the scraper instance
    driver,               \* self.driver: 0 is None, n > 0 the n-th session
    opened,               \* browser sessions opened so far
    live,                 \* sessions opened and not yet quit
    fencers_data,         \* self.fencers_data
    rankings_data,        \* self.rankings_data
    filter_countries,     \* self.filter_config['countries']
    \* the running sweep
    call,                 \* the entry point this behaviour runs
    pc,                   \* the sweep's position
    max_pages,            \* scrape_all_fencers(max_pages=...)
    countries_arg,        \* scrape_all_fencers(countries=...); <<>> is None or []
    limit_combinations,   \* scrape_all_rankings(limit_combinations=...)
    countries_to_scrape,
    ci,                   \* index of country in countries_to_scrape
    page,
    all_fencers,
    gi, wi, ai, si,       \* indices of gender, weapon, age_category, season
    combinations_scraped,
    all_rankings,
    result,               \* what the fetch just returned to the sweep
    returned,             \* the sweep's return value
    \* the running fetch (scrape_fencers_page / scrape_rankings)
    fpc,                  \* the fetch's position, "idle" outside a fetch
    rows,                 \* rows[1:] not yet visited by the row loop
    table,                \* rows[1:] as the fetch read them from the page
    parsed,               \* the fetch's local list (fencers / rankings)
    \* the remote site and its faults
    sitePages,            \* result pages the site holds for each country
    faulted,              \* an interaction of this run has failed
    \* history
    requests,             \* the fetches issued, in order
    returns,              \* the length of the list each fetch returned, in order
    completed,            \* concatenation of the lists the fetches returned
    interrupt,            \* where the last KeyboardInterrupt arrived (at), and
                          \* the fetches issued (n) and returned (r) by then
    abandoned,            \* records a fetch had parsed when it was interrupted
    fetchEnd,             \* how the last fetch ended: "rows", "no_page", "fault"
    delays,               \* per fetch called: the delays slept since then
    quits,                \* the sessions quit() was called on, in call order
    applied,              \* the filters set in the search of the running fetch
    outcome,              \* "running", "returned" or the exception that escaped
    \* main()
    mpc,                  \* main's position, "none" outside a run of main
    countries,            \* main's local: what get_countries_list returned
    files,                \* the files the exports wrote, in order
    selects,              \* the <select> elements of the fencer search view
    db_config,            \* self.db_config is set (TRUE) or None (FALSE)
    exitBy                \* how main ended: "", "return" or the exception

instVars == <<driver, opened, live, fencers_data, rankings_data, filter_countries>>
argVars == <<call, max_pages, countries_arg, limit_combinations>>
fencerVars == <<countries_to_scrape, ci, page, all_fencers>>
rankingVars == <<gi, wi, ai, si, combinations_scraped, all_rankings>>
fetchVars == <<fpc, rows, parsed, table>>
histVars == <<requests, returns, completed, interrupt, abandoned, fetchEnd>>
obsVars == <<delays, quits, applied>>
mainVars == <<mpc, countries, files, selects, db_config, exitBy>>
vars == <<instVars, argVars, pc, fencerVars, rankingVars, result, returned,
          fetchVars, sitePages, faulted, histVars, obsVars, outcome, mainVars>>


(***************************************************************************)
(*                            THE REMOTE SITE                              *)
(***************************************************************************)

\* str(n) of a natural number, as page numbers are written in the cells
\* and in the XPath of the page link.
RECURSIVE Digits(_)
Digits(n) ==
    IF n < 10 THEN <<CHOOSE c \in DecimalDigits : DigitVal(c) = n>>
    ELSE Digits(n \div 10) \o Digits(n % 10)

\* The <tr> of the table head: it holds no <td>.
HeaderRow == <<>>

\* A well-formed fencer row of result page p of a country, and a row that
\* lost its last cell.
FencerRow(country, p) ==
    << Digits(p) \o <<"7">>, <<"D", "o", "e">>, <<"J", "o">>, <<"C">>,
       <<" ">> \o Chars(country) \o <<" ">>, <<"1", "9", "9", "8">>, <<"R">> >>
ShortFencerRow(country, p) == SubSeq(FencerRow(country, p), 1, 6)

\* The <tr> elements of result page p of a country's fencer search: pages
\* 1..sitePages[country] hold rows, a country without fencers shows the
\* bare table.
FencerTable(country, p) ==
    IF p <= sitePages[country]
    THEN <<HeaderRow, FencerRow(country, p), ShortFencerRow(country, p)>>
    ELSE <<HeaderRow>>

\* The result view a search opens (page 1) links the first pages and the
\* last one: the pages its <a data-page="..."> elements lead to, in
\* document order.
PaginatorWindow == 2
PageLinks(country) ==
    [i \in 1..Min(sitePages[country], PaginatorWindow) |-> i]
        \o (IF sitePages[country] > PaginatorWindow
            THEN <<sitePages[country]>> ELSE <<>>)

\* find_element(By.XPATH, "//a[contains(@data-page, '{page}')]"): the page
\* of the first link whose data-page contains the text of the page number,
\* 0 when there is none (NoSuchElementException).
LinkedPage(p, links) ==
    LET hits == {i \in DOMAIN links : Contains(Digits(p), Digits(links[i]))}
    IN  IF hits = {} THEN 0
        ELSE links[CHOOSE i \in hits : \A j \in hits : i <= j]

\* Whether the search for a link to page p (p > 1) finds an element.
HasPageLink(country, p) == LinkedPage(p, PageLinks(country)) # 0

RankingRow ==
    << <<"1">>, <<"G", "P">>, <<" ", "P", "a", "r", "i", "s">>, Chars(FRA),
       <<"S", "r">>, <<"F", "o", "i", "l">>, <<"7", ".", "5", "0">> >>
ShortRankingRow == SubSeq(RankingRow, 1, 5)

\* The <tr> elements of a ranking result table.
RankingTable == <<HeaderRow, RankingRow, ShortRankingRow>>

(***************************************************************************)
(*                          SESSION CONTROLLER                             *)
(***************************************************************************)

\* setup_driver: webdriver.Chrome(...) fails ("no_browser"), or opens a
\* session that is assigned to self.driver, after which implicitly_wait may
\* still fail ("wait_failed").  The constructor is taken as atomic: when it
\* does not return, no session exists.
SetupDriverOutcomes == {"ok", "no_browser", "wait_failed"}

SetupDriver(o) ==
    IF o = "no_browser"
    THEN UNCHANGED <<driver, opened, live>>
    ELSE /\ opened' = opened + 1
         /\ driver' = opened + 1
         /\ live' = live \cup {opened + 1}

\* A cleanup that would leave the browser running.  BrowserReleasedAtExit
\* must tell it from Cleanup.
CleanupWithoutQuit == UNCHANGED <<driver, opened, live, quits>>

\* cleanup: if self.driver: self.driver.quit()
Cleanup ==
    /\ live' = IF driver # 0 THEN live \ {driver} ELSE live
    /\ quits' = IF driver # 0 THEN Append(quits, driver) ELSE quits
    /\ UNCHANGED <<driver, opened>>


(***************************************************************************)
(*             PAGE FETCHER: scrape_fencers_page, scrape_rankings          *)
(***************************************************************************)

Fencers == "scrape_all_fencers"
Rankings == "scrape_all_rankings"

\* The sweep's position once the fetch it called has returned.
GotPc == IF call = Fencers THEN "f_got" ELSE "r_got"
\* The statement after the sweep's try block.
StorePc == IF call = Fencers THEN "f_store" ELSE "r_store"

Country == countries_to_scrape[ci]

\* The arguments of the fetch that is running: the last call made.
Request == requests[Len(requests)]

\* The filter selects of the rankings page before any is set.
NoFilters == [gender |-> "", weapon |-> "", age_category |-> "", season |-> ""]

\* if len(selects) >= 5
FilterSelects == 5

\* The filters a fetch has set when it submits its search.  scrape_rankings
\* sets the selects at positions 0..3 when the page holds at least 5
\* selects, and none otherwise; scrape_fencers_page selects the country and
\* the gender it was given.
SearchFilters(request, nselects) ==
    IF call = Fencers
    THEN [country |-> request.country, gender |-> request.gender]
    ELSE IF nselects >= FilterSelects
    THEN [gender |-> request.gender, weapon |-> request.weapon,
          age_category |-> request.age_category, season |-> request.season]
    ELSE NoFilters

\* time.sleep(2) / time.sleep(3) after the last fetch called.
Delayed(d) == [d EXCEPT ![Len(d)] = @ + 1]

\* "return <list>" of a fetch: the sweep goes on with the list.
FetchReturns(list, how) ==
    /\ result' = list
    /\ returns' = Append(returns, Len(list))
    /\ completed' = completed \o list
    /\ fetchEnd' = how
    /\ fpc' = "idle"
    /\ pc' = GotPc
    /\ rows' = <<>>
    /\ parsed' = <<>>

\* scrape_fencers_page up to "rows = find_elements(tr)", scrape_rankings up
\* to the same statement, when no interaction fails: the search is
\* submitted and the result table is read.  A page > 1 without a page link
\* makes scrape_fencers_page return [].
FetchInteract ==
    /\ fpc = "interact"
    /\ driver \in live
    /\ IF call = Fencers /\ Request.page > 1
          /\ ~HasPageLink(Request.country, Request.page)
       THEN FetchReturns(<<>>, "no_page") /\ UNCHANGED table
       ELSE /\ rows' = Tail(IF call = Fencers
                             THEN FencerTable(Request.country,
                                      IF Request.page > 1
                                      THEN LinkedPage(Request.page,
                                               PageLinks(Request.country))
                                      ELSE 1)
                             ELSE RankingTable)
            /\ table' = rows'
            /\ parsed' = <<>>
            /\ fpc' = "rows"
            /\ UNCHANGED <<pc, result, returns, completed, fetchEnd>>
    /\ UNCHANGED <<instVars, argVars, fencerVars, rankingVars, returned,
                   sitePages, faulted, requests, interrupt, abandoned, outcome,
                   mainVars>>
    /\ applied' = SearchFilters(Request, FilterSelects)
    /\ UNCHANGED <<delays, quits>>

\* A row loop that would remember, from one call to the next, the records
\* it has built and pass over a row it has seen.
\* RowParsingIsAFunctionOfRows must tell it from RowOutcome.
RowOutcomeRemembering(cells) ==
    LET o == IF call = Fencers
             THEN ParseFencerRow(cells, Request.gender)
             ELSE ParseRankingRow(cells, Request.gender, Request.weapon,
                                  Request.age_category, Request.season)
    IN  IF o.kind = "record" /\ \E k \in DOMAIN completed : completed[k] = o.rec
        THEN [kind |-> "short"]
        ELSE o

\* What one pass of the row loop does with the row.
RowOutcome(cells) ==
    IF call = Fencers
    THEN ParseFencerRow(cells, Request.gender)
    ELSE ParseRankingRow(cells, Request.gender, Request.weapon,
                         Request.age_category, Request.season)

\* A row loop that would keep what it has of every row.
\* ShortRowsYieldNoRecord must tell it from AfterRow.
AfterRowUnchecked(list, cells) == Append(list, [cells |-> cells])

\* The local list after one pass of the row loop.
AfterRow(list, cells) ==
    IF RowOutcome(cells).kind = "record"
    THEN Append(list, RowOutcome(cells).rec)
    ELSE list

\* One pass of "for row in rows[1:]".
FetchRow ==
    /\ fpc = "rows"
    /\ rows # <<>>
    /\ parsed' = AfterRow(parsed, Head(rows))
    /\ rows' = Tail(rows)
    /\ UNCHANGED <<table, instVars, argVars, pc, fencerVars, rankingVars, result,
                   returned, fpc, sitePages, faulted, histVars, outcome,
                   mainVars>>
    /\ UNCHANGED obsVars

\* The row loop is over: "return fencers" / "return rankings".
FetchReturn ==
    /\ fpc = "rows"
    /\ rows = <<>>
    /\ FetchReturns(parsed, "rows")
    /\ UNCHANGED <<table, instVars, argVars, fencerVars, rankingVars, returned,
                   sitePages, faulted, requests, interrupt, abandoned, outcome,
                   mainVars>>
    /\ UNCHANGED obsVars

\* A handler that would hand back the rows parsed before the failure.
\* FailedFetchIsEmpty must tell it from OnInteractionError.
PartialOnInteractionError(list) == list

\* What a fetch returns when an interaction raises: the handler of
\* "except Exception" logs and returns [].
OnInteractionError(list) == <<>>

\* An interaction fails anywhere in the fetch (element not found, select
\* value missing, wait timeout, stale row).  One run sees at most one
\* failure on a live session, at any fetch and any point of it; on a
\* session that was quit every fetch fails at its first request.
FetchFault ==
    /\ fpc \in {"interact", "rows"}
    /\ ~faulted \/ driver \notin live
    /\ faulted' = TRUE
    /\ FetchReturns(OnInteractionError(parsed), "fault")
    /\ UNCHANGED <<table, instVars, argVars, fencerVars, rankingVars, returned,
                   sitePages, requests, interrupt, abandoned, outcome, mainVars>>
    /\ UNCHANGED obsVars

\* An interrupt that a handler inside the loop would swallow, the sweep
\* going on with its delay.  InterruptTakesEffectAtOnce must tell it from
\* InterruptedFetchPc.
InterruptSwallowedPc == IF call = Fencers THEN "f_sleep" ELSE "r_sleep"

\* Where a KeyboardInterrupt raised inside the fetch lands: the fetch's
\* "except Exception" does not catch it, the sweep's "except
\* KeyboardInterrupt" does.
InterruptedFetchPc == StorePc

\* A KeyboardInterrupt arrives while the fetch is interacting with the
\* browser or walking the rows: the fetch is abandoned with its local list.
InterruptFetch ==
    /\ fpc \in {"interact", "rows"}
    /\ interrupt' = [at |-> "fetch", n |-> Len(requests), r |-> Len(returns)]
    /\ abandoned' = parsed
    /\ fpc' = "idle"
    /\ rows' = <<>>
    /\ parsed' = <<>>
    /\ pc' = InterruptedFetchPc
    /\ UNCHANGED <<table, instVars, argVars, fencerVars, rankingVars, result,
                   returned, sitePages, faulted, requests, returns, completed, fetchEnd,
                   outcome, mainVars>>
    /\ UNCHANGED obsVars

\* The sweep calls the fetch.
StartFetch(request) ==
    /\ requests' = Append(requests, request)
    /\ fpc' = "interact"
    /\ rows' = <<>>
    /\ parsed' = <<>>
    /\ table' = <<>>
    /\ delays' = Append(delays, 0)
    /\ applied' = NoFilters

(***************************************************************************)
(*                   COMBINATION ENUMERATOR: the fencer sweep              *)
(***************************************************************************)

\* countries or self.filter_config['countries'][:10]
CountriesToScrape(given, configured) ==
    IF given # <<>> THEN given
    ELSE SubSeq(configured, 1, Min(DemoCountryLimit, Len(configured)))

\* A ceiling test that would let one page too many through.
\* FencerSweepEndsWithinCeiling must tell it from PageCeilingHit.
PageCeilingHitLate(ceiling, p) == Truthy(ceiling) /\ p > ceiling + 1

\* if max_pages and page > max_pages: break
PageCeilingHit(ceiling, p) == Truthy(ceiling) /\ p > ceiling

\* An accumulation that would leave out the records it already holds.
\* AccumulationIsConcatenation must tell it from Extend.
ExtendDeduplicated(all, list) ==
    all \o SelectSeq(list, LAMBDA r : \A k \in DOMAIN all : all[k] # r)

\* all_fencers.extend(fencers) / all_rankings.extend(rankings)
Extend(all, list) == all \o list

\* Lines 323-327, before the try block: the locals, and the driver when the
\* instance has none.  An exception of setup_driver leaves the sweep.
FSetup ==
    /\ call = Fencers
    /\ pc = "f_setup"
    /\ all_fencers' = <<>>
    /\ countries_to_scrape' = CountriesToScrape(countries_arg, filter_countries)
    /\ IF driver # 0
       THEN /\ pc' = "f_country"
            /\ UNCHANGED <<driver, opened, live, outcome>>
       ELSE \E o \in SetupDriverOutcomes :
                /\ SetupDriver(o)
                /\ IF o = "ok"
                   THEN pc' = "f_country" /\ UNCHANGED outcome
                   ELSE pc' = "raised" /\ outcome' = "WebDriverException"
    /\ ci' = 1
    /\ UNCHANGED <<fencers_data, rankings_data, filter_countries, argVars,
                   page, rankingVars, result, returned, fetchVars, sitePages,
                   faulted, histVars, mainVars>>
    /\ UNCHANGED obsVars

\* for country in countries_to_scrape: ... page = 1
FCountry ==
    /\ pc = "f_country"
    /\ IF ci > Len(countries_to_scrape)
       THEN pc' = "f_store" /\ UNCHANGED page
       ELSE pc' = "f_check" /\ page' = 1
    /\ UNCHANGED <<instVars, argVars, countries_to_scrape, ci, all_fencers,
                   rankingVars, result, returned, fetchVars, sitePages, faulted,
                   histVars, outcome, mainVars>>
    /\ UNCHANGED obsVars

\* scrape_fencers_page(page=page, country=country): the sweep passes no
\* gender, so the parameter has its default "".  visit is the position of
\* the country in the sweep's list.
FencerRequest(country, p, visit) ==
    [country |-> country, page |-> p, visit |-> visit, gender |-> <<>>]

\* The head of "while True": the ceiling test, then the call of
\* scrape_fencers_page(page=page, country=country).
FCheck ==
    /\ pc = "f_check"
    /\ IF PageCeilingHit(max_pages, page)
       THEN /\ ci' = ci + 1
            /\ pc' = "f_country"
            /\ UNCHANGED <<fetchVars, requests, delays, applied>>
       ELSE /\ StartFetch(FencerRequest(Country, page, ci))
            /\ pc' = "f_fetch"
            /\ UNCHANGED ci
    /\ UNCHANGED <<instVars, argVars, countries_to_scrape, page, all_fencers,
                   rankingVars, result, returned, sitePages, faulted, returns, completed,
                   interrupt, abandoned, fetchEnd, outcome, mainVars>>
    /\ UNCHANGED quits

\* A page loop that would ask again for a page that came back empty.
\* NoFetchRetried must tell it from FGot.
FGotRetrying ==
    /\ pc = "f_got"
    /\ IF result = <<>>
       THEN /\ pc' = "f_check"
            /\ UNCHANGED <<all_fencers, page, ci>>
       ELSE /\ all_fencers' = Extend(all_fencers, result)
            /\ page' = page + 1
            /\ pc' = "f_sleep"
            /\ UNCHANGED ci
    /\ UNCHANGED <<instVars, argVars, countries_to_scrape, rankingVars, result,
                   returned, fetchVars, sitePages, faulted, histVars, outcome,
                   mainVars>>
    /\ UNCHANGED obsVars

\* if not fencers: break / all_fencers.extend(fencers); page += 1
FGot ==
    /\ pc = "f_got"
    /\ IF result = <<>>
       THEN /\ ci' = ci + 1
            /\ pc' = "f_country"
            /\ UNCHANGED <<all_fencers, page>>
       ELSE /\ all_fencers' = Extend(all_fencers, result)
            /\ page' = page + 1
            /\ pc' = "f_sleep"
            /\ UNCHANGED ci
    /\ UNCHANGED <<instVars, argVars, countries_to_scrape, rankingVars, result,
                   returned, fetchVars, sitePages, faulted, histVars, outcome,
                   mainVars>>
    /\ UNCHANGED obsVars

\* time.sleep(2)
FSleep ==
    /\ pc = "f_sleep"
    /\ pc' = "f_check"
    /\ UNCHANGED <<instVars, argVars, fencerVars, rankingVars, result,
                   returned, fetchVars, sitePages, faulted, histVars, outcome,
                   mainVars>>
    /\ delays' = Delayed(delays)
    /\ UNCHANGED <<quits, applied>>

\* self.fencers_data = all_fencers; return all_fencers
FStore ==
    /\ pc = "f_store"
    /\ fencers_data' = all_fencers
    /\ returned' = all_fencers
    /\ outcome' = "returned"
    /\ pc' = "done"
    /\ UNCHANGED <<driver, opened, live, rankings_data, filter_countries,
                   argVars, fencerVars, rankingVars, result, fetchVars,
                   sitePages, faulted, histVars, mainVars>>
    /\ UNCHANGED obsVars


(***************************************************************************)
(*                  COMBINATION ENUMERATOR: the ranking sweep              *)
(***************************************************************************)

\* The ceiling test with the comparison off by one: one combination too
\* many is scraped.  CombinationCeilingExact must tell it from LimitHit.
LimitHitLate(limit, scraped) == Truthy(limit) /\ scraped > limit

\* if limit_combinations and combinations_scraped >= limit_combinations: break
LimitHit(limit, scraped) == Truthy(limit) /\ scraped >= limit

\* Lines 358-362, before the try block.
RSetup ==
    /\ call = Rankings
    /\ pc = "r_setup"
    /\ all_rankings' = <<>>
    /\ combinations_scraped' = 0
    /\ IF driver # 0
       THEN /\ pc' = "r_gender"
            /\ UNCHANGED <<driver, opened, live, outcome>>
       ELSE \E o \in SetupDriverOutcomes :
                /\ SetupDriver(o)
                /\ IF o = "ok"
                   THEN pc' = "r_gender" /\ UNCHANGED outcome
                   ELSE pc' = "raised" /\ outcome' = "WebDriverException"
    /\ gi' = 1
    /\ UNCHANGED <<fencers_data, rankings_data, filter_countries, argVars,
                   fencerVars, wi, ai, si, result, returned, fetchVars,
                   sitePages, faulted, histVars, mainVars>>
    /\ UNCHANGED obsVars

\* for gender in self.filter_config['genders']
RGender ==
    /\ pc = "r_gender"
    /\ IF gi > Len(Genders)
       THEN pc' = "r_store" /\ UNCHANGED wi
       ELSE pc' = "r_weapon" /\ wi' = 1
    /\ UNCHANGED <<instVars, argVars, fencerVars, gi, ai, si,
                   combinations_scraped, all_rankings, result, returned,
                   fetchVars, sitePages, faulted, histVars, outcome, mainVars>>
    /\ UNCHANGED obsVars

\* for weapon in self.filter_config['weapons']
RWeapon ==
    /\ pc = "r_weapon"
    /\ IF wi > Len(Weapons)
       THEN pc' = "r_after_weapons" /\ UNCHANGED ai
       ELSE pc' = "r_age" /\ ai' = 1
    /\ UNCHANGED <<instVars, argVars, fencerVars, gi, wi, si,
                   combinations_scraped, all_rankings, result, returned,
                   fetchVars, sitePages, faulted, histVars, outcome, mainVars>>
    /\ UNCHANGED obsVars

\* for age_category in self.filter_config['age_categories']
RAge ==
    /\ pc = "r_age"
    /\ IF ai > Len(AgeCategories)
       THEN pc' = "r_after_ages" /\ UNCHANGED si
       ELSE pc' = "r_season" /\ si' = 1
    /\ UNCHANGED <<instVars, argVars, fencerVars, gi, wi, ai,
                   combinations_scraped, all_rankings, result, returned,
                   fetchVars, sitePages, faulted, histVars, outcome, mainVars>>
    /\ UNCHANGED obsVars

\* scrape_rankings(gender, weapon, age_category, season): the sweep passes
\* no country, so the parameter has its default "".
RankingRequest(gender, weapon, age_category, season) ==
    [gender |-> gender, weapon |-> weapon, age_category |-> age_category,
     season |-> season, country |-> <<>>]

\* for season in self.filter_config['seasons']: the ceiling test of line
\* 369, then the call of scrape_rankings(gender, weapon, age_category, season).
RSeason ==
    /\ pc = "r_season"
    /\ IF si > Len(Seasons) \/ LimitHit(limit_combinations, combinations_scraped)
       THEN /\ pc' = "r_after_seasons"
            /\ UNCHANGED <<fetchVars, requests, delays, applied>>
       ELSE /\ StartFetch(RankingRequest(Genders[gi], Weapons[wi],
                                          AgeCategories[ai], Seasons[si]))
            /\ pc' = "r_fetch"
    /\ UNCHANGED <<instVars, argVars, fencerVars, rankingVars, result,
                   returned, sitePages, faulted, returns, completed, interrupt, abandoned,
                   fetchEnd, outcome, mainVars>>
    /\ UNCHANGED quits

\* all_rankings.extend(rankings); combinations_scraped += 1
RGot ==
    /\ pc = "r_got"
    /\ all_rankings' = Extend(all_rankings, result)
    /\ combinations_scraped' = combinations_scraped + 1
    /\ pc' = "r_sleep"
    /\ UNCHANGED <<instVars, argVars, fencerVars, gi, wi, ai, si, result,
                   returned, fetchVars, sitePages, faulted, histVars, outcome,
                   mainVars>>
    /\ UNCHANGED obsVars

\* A season loop that would pass over every second season.
\* RankingSweepCoversProduct must tell it from RSleep.
RSleepSkipping ==
    /\ pc = "r_sleep"
    /\ si' = si + 2
    /\ pc' = "r_season"
    /\ UNCHANGED <<instVars, argVars, fencerVars, gi, wi, ai,
                   combinations_scraped, all_rankings, result, returned,
                   fetchVars, sitePages, faulted, histVars, outcome, mainVars>>
    /\ delays' = Delayed(delays)
    /\ UNCHANGED <<quits, applied>>

\* time.sleep(3), then the next season
RSleep ==
    /\ pc = "r_sleep"
    /\ si' = si + 1
    /\ pc' = "r_season"
    /\ UNCHANGED <<instVars, argVars, fencerVars, gi, wi, ai,
                   combinations_scraped, all_rankings, result, returned,
                   fetchVars, sitePages, faulted, histVars, outcome, mainVars>>
    /\ delays' = Delayed(delays)
    /\ UNCHANGED <<quits, applied>>

\* Line 380, after the season loop: break out of the age loop, or go on
\* with the next age category.
RAfterSeasons ==
    /\ pc = "r_after_seasons"
    /\ IF LimitHit(limit_combinations, combinations_scraped)
       THEN pc' = "r_after_ages" /\ UNCHANGED ai
       ELSE pc' = "r_age" /\ ai' = ai + 1
    /\ UNCHANGED <<instVars, argVars, fencerVars, gi, wi, si,
                   combinations_scraped, all_rankings, result, returned,
                   fetchVars, sitePages, faulted, histVars, outcome, mainVars>>
    /\ UNCHANGED obsVars

\* Line 382, after the age loop.
RAfterAges ==
    /\ pc = "r_after_ages"
    /\ IF LimitHit(limit_combinations, combinations_scraped)
       THEN pc' = "r_after_weapons" /\ UNCHANGED wi
       ELSE pc' = "r_weapon" /\ wi' = wi + 1
    /\ UNCHANGED <<instVars, argVars, fencerVars, gi, ai, si,
                   combinations_scraped, all_rankings, result, returned,
                   fetchVars, sitePages, faulted, histVars, outcome, mainVars>>
    /\ UNCHANGED obsVars

\* Line 384, after the weapon loop.
RAfterWeapons ==
    /\ pc = "r_after_weapons"
    /\ IF LimitHit(limit_combinations, combinations_scraped)
       THEN pc' = "r_store" /\ UNCHANGED gi
       ELSE pc' = "r_gender" /\ gi' = gi + 1
    /\ UNCHANGED <<instVars, argVars, fencerVars, wi, ai, si,
                   combinations_scraped, all_rankings, result, returned,
                   fetchVars, sitePages, faulted, histVars, outcome, mainVars>>
    /\ UNCHANGED obsVars

\* self.rankings_data = all_rankings; return all_rankings
RStore ==
    /\ pc = "r_store"
    /\ rankings_data' = all_rankings
    /\ returned' = all_rankings
    /\ outcome' = "returned"
    /\ pc' = "done"
    /\ UNCHANGED <<driver, opened, live, fencers_data, filter_countries,
                   argVars, fencerVars, rankingVars, result, fetchVars,
                   sitePages, faulted, histVars, mainVars>>
    /\ UNCHANGED obsVars

(***************************************************************************)
(*                             INTERRUPTS                                  *)
(***************************************************************************)

\* A KeyboardInterrupt is delivered while the program waits: in the browser
\* start of setup_driver, in a fetch (InterruptFetch) and in time.sleep.

\* In time.sleep of the sweep's loop: inside the try block.
InterruptSleep ==
    /\ pc \in {"f_sleep", "r_sleep"}
    /\ interrupt' = [at |-> "sleep", n |-> Len(requests), r |-> Len(returns)]
    /\ pc' = StorePc
    /\ UNCHANGED <<instVars, argVars, fencerVars, rankingVars, result,
                   returned, fetchVars, sitePages, faulted, requests, returns, completed,
                   abandoned, fetchEnd, outcome, mainVars>>
    /\ UNCHANGED obsVars

\* In the sweep's own setup_driver call, which stands before the try block:
\* the exception leaves the sweep.
InterruptSetup ==
    /\ pc \in {"f_setup", "r_setup"}
    /\ driver = 0
    /\ interrupt' = [at |-> "setup", n |-> Len(requests), r |-> Len(returns)]
    /\ outcome' = "KeyboardInterrupt"
    /\ pc' = "raised"
    /\ UNCHANGED <<instVars, argVars, fencerVars, rankingVars, result,
                   returned, fetchVars, sitePages, faulted, requests, returns, completed,
                   abandoned, fetchEnd, mainVars>>
    /\ UNCHANGED obsVars

(***************************************************************************)
(*                  COUNTRY DISCOVERY: get_countries_list                  *)
(***************************************************************************)

\* A value that is a list or None: main's local "countries".
NoList == [none |-> TRUE, list |-> <<>>]
List(l) == [none |-> FALSE, list |-> l]

\* if len(options) > 50
CountryThreshold == 50

\* A <select> is its number of <option> elements and the values of
\* options[1:] that are not empty.
IsCountrySelect(sel) == sel.count > CountryThreshold

\* if value and len(value) == 3
CountryCodes(sel) == SelectSeq(sel.values, LAMBDA v : Len(v) = 3)

RECURSIVE FirstCountrySelect(_)
FirstCountrySelect(sels) ==
    IF sels = <<>> THEN 0
    ELSE IF IsCountrySelect(Head(sels)) THEN 1
    ELSE IF FirstCountrySelect(Tail(sels)) = 0 THEN 0
    ELSE 1 + FirstCountrySelect(Tail(sels))

\* What get_countries_list returns.  An interaction that raises (also the
\* wait for a first select, when the view holds none) makes it return [].
\* Otherwise it returns the codes of the first select with more than 50
\* options; when the loop over the selects ends without one, the function
\* ends without a return statement.
GetCountriesList(sels, failed) ==
    IF failed \/ sels = <<>> THEN List(<<>>)
    ELSE IF FirstCountrySelect(sels) # 0
    THEN List(CountryCodes(sels[FirstCountrySelect(sels)]))
    ELSE NoList

\* self.filter_config['countries'] after get_countries_list
ConfiguredAfter(sels, failed, before) ==
    IF ~failed /\ FirstCountrySelect(sels) # 0
    THEN CountryCodes(sels[FirstCountrySelect(sels)])
    ELSE before

(***************************************************************************)
(*                 Spec: one call of one of the two sweeps                 *)
(***************************************************************************)

\* The country lists a caller passes: none, one country, two, one twice.
CountryArgs == {<<>>, <<FRA>>, <<FRA, GER>>, <<GER, GER>>}

\* The values of the two ceilings: None, 0 and the positive ones.
PageCeilings == {PyNone} \cup (0..MaxPagesArg)
CombinationCeilings == {PyNone} \cup (0..TotalCombinations)

SiteCountries == {FRA, GER, QAT, UAE, SAU}

\* The state of a new instance (__init__) and of the history.
Fresh ==
    /\ fencers_data = <<>>
    /\ rankings_data = <<>>
    /\ countries_to_scrape = <<>>
    /\ ci = 1
    /\ page = 1
    /\ all_fencers = <<>>
    /\ gi = 1 /\ wi = 1 /\ ai = 1 /\ si = 1
    /\ combinations_scraped = 0
    /\ all_rankings = <<>>
    /\ result = <<>>
    /\ returned = <<>>
    /\ fpc = "idle"
    /\ rows = <<>>
    /\ parsed = <<>>
    /\ table = <<>>
    /\ faulted = FALSE
    /\ requests = <<>>
    /\ completed = <<>>
    /\ returns = <<>>
    /\ interrupt = [at |-> "none", n |-> 0, r |-> 0]
    /\ abandoned = <<>>
    /\ fetchEnd = "none"
    /\ delays = <<>>
    /\ quits = <<>>
    /\ applied = NoFilters
    /\ outcome = "running"
    /\ files = <<>>
    /\ exitBy = ""

\* The sweep is called on an instance without a driver or with a live one,
\* with or without discovered countries.
Init ==
    /\ Fresh
    /\ driver \in {0, 1}
    /\ opened = driver
    /\ live = IF driver = 0 THEN {} ELSE {1}
    /\ call \in {Fencers, Rankings}
    /\ pc = IF call = Fencers THEN "f_setup" ELSE "r_setup"
    /\ max_pages \in IF call = Fencers THEN PageCeilings ELSE {PyNone}
    /\ countries_arg \in IF call = Fencers THEN CountryArgs ELSE {<<>>}
    /\ filter_countries \in
         IF call = Fencers /\ countries_arg = <<>> THEN {<<>>, <<GER, FRA>>}
         ELSE {<<>>}
    /\ limit_combinations \in
         IF call = Rankings THEN CombinationCeilings ELSE {PyNone}
    /\ sitePages \in [SiteCountries -> 0..MaxSitePages]
    /\ \A c \in SiteCountries \ {FRA, GER} : sitePages[c] = 0
    /\ call = Rankings => \A c \in SiteCountries : sitePages[c] = 0
    /\ mpc = "none"
    /\ countries = NoList
    /\ selects = <<>>
    /\ db_config = FALSE

FetchSteps ==
    \/ FetchInteract
    \/ FetchRow
    \/ FetchReturn
    \/ FetchFault
    \/ InterruptFetch

FencerSteps == FSetup \/ FCountry \/ FCheck \/ FGot \/ FSleep \/ FStore

RankingSteps ==
    \/ RSetup \/ RGender \/ RWeapon \/ RAge \/ RSeason \/ RGot \/ RSleep
    \/ RAfterSeasons \/ RAfterAges \/ RAfterWeapons \/ RStore

Next ==
    \/ FetchSteps
    \/ FencerSteps
    \/ RankingSteps
    \/ InterruptSleep
    \/ InterruptSetup

Spec == Init /\ [][Next]_vars

\* One call of scrape_all_fencers that goes on while it can: the method
\* runs in one thread and nothing but the end of the call stops it.
InitFencers == Init /\ call = Fencers
NextFencers == FetchSteps \/ FencerSteps \/ InterruptSleep \/ InterruptSetup
FairSpecFencers == InitFencers /\ [][NextFencers]_vars /\ WF_vars(NextFencers)


(***************************************************************************)
(*                                 main()                                  *)
(***************************************************************************)

\* An export that would drop the batch it could not write.
\* ExportFailureKeepsBatches must tell it from BatchAfterExport.
BatchDroppedOnFailure(batch, failed) == IF failed THEN <<>> ELSE batch

\* self.fencers_data / self.rankings_data after export_to_csv,
\* export_to_json or save_to_database: the three methods only read them.
BatchAfterExport(batch, failed) == batch

\* An export without the tests "if self.fencers_data" / "if
\* self.rankings_data": a file for each batch, empty or not.
\* ExportWritesNonEmptyBatches must tell it from FilesOf.
FilesOfEveryBatch(format) ==
    <<[format |-> format, batch |-> "fencers"],
      [format |-> format, batch |-> "rankings"]>>

\* export_to_csv / export_to_json write one file per non-empty batch, the
\* fencers first; "fail" is the number of files written before a write
\* raises (2: none raises).
FilesOf(format) ==
    (IF fencers_data # <<>> THEN <<[format |-> format, batch |-> "fencers"]>>
     ELSE <<>>)
    \o (IF rankings_data # <<>> THEN <<[format |-> format, batch |-> "rankings"]>>
        ELSE <<>>)

\* An exception reaches main's try block: "except Exception" logs it, a
\* KeyboardInterrupt passes; the finally clause runs either way.
MainRaise(e) ==
    /\ exitBy' = e
    /\ mpc' = IF e = "KeyboardInterrupt" THEN "m_finally" ELSE "m_except"

\* scraper.setup_driver()
MSetup ==
    /\ mpc = "m_setup"
    /\ \E o \in SetupDriverOutcomes :
           /\ SetupDriver(o)
           /\ IF o = "ok"
              THEN mpc' = "m_countries" /\ UNCHANGED exitBy
              ELSE MainRaise("WebDriverException")
    /\ UNCHANGED <<fencers_data, rankings_data, filter_countries, argVars, pc,
                   fencerVars, rankingVars, result, returned, fetchVars,
                   sitePages, faulted, histVars, outcome, countries, files,
                   selects, db_config>>
    /\ UNCHANGED obsVars

\* countries = scraper.get_countries_list(), then len(countries) in the
\* log line of main.
MCountries ==
    /\ mpc = "m_countries"
    /\ \E failed \in BOOLEAN :
           /\ failed => ~faulted
           /\ faulted' = (faulted \/ failed)
           /\ countries' = GetCountriesList(selects, failed)
           /\ filter_countries' = ConfiguredAfter(selects, failed, filter_countries)
    /\ IF countries'.none
       THEN MainRaise("TypeError")
       ELSE mpc' = "m_fencers" /\ UNCHANGED exitBy
    /\ UNCHANGED <<driver, opened, live, fencers_data, rankings_data, argVars,
                   pc, fencerVars, rankingVars, result, returned, fetchVars,
                   sitePages, histVars, outcome, files, selects, db_config>>
    /\ UNCHANGED obsVars

\* countries[:5] if countries else ["QAT", "UAE", "SAU", "FRA", "GER"]
SampleCountries(found) ==
    IF found # <<>>
    THEN SubSeq(found, 1, Min(MainSampleCountries, Len(found)))
    ELSE DefaultCountries

\* scraper.scrape_all_fencers(max_pages=2, countries=sample_countries)
MFencers ==
    /\ mpc = "m_fencers"
    /\ call' = Fencers
    /\ max_pages' = MainMaxPages
    /\ countries_arg' = SampleCountries(countries.list)
    /\ pc' = "f_setup"
    /\ outcome' = "running"
    /\ mpc' = "m_in_fencers"
    /\ UNCHANGED <<instVars, limit_combinations, fencerVars, rankingVars,
                   result, returned, fetchVars, sitePages, faulted, histVars,
                   countries, files, selects, db_config, exitBy>>
    /\ UNCHANGED obsVars

\* scraper.scrape_all_rankings(limit_combinations=10)
MRankings ==
    /\ mpc = "m_in_fencers"
    /\ pc = "done"
    /\ call' = Rankings
    /\ limit_combinations' = MainLimitCombinations
    /\ pc' = "r_setup"
    /\ outcome' = "running"
    /\ mpc' = "m_in_rankings"
    /\ UNCHANGED <<instVars, max_pages, countries_arg, fencerVars, rankingVars,
                   result, returned, fetchVars, sitePages, faulted, histVars,
                   countries, files, selects, db_config, exitBy>>
    /\ UNCHANGED obsVars

\* scraper.export_to_csv("eurofencing_sample")
MCsv ==
    /\ mpc = "m_in_rankings"
    /\ pc = "done"
    /\ \E n \in 0..2 :
           /\ files' = files \o SubSeq(FilesOf("csv"), 1, Min(n, Len(FilesOf("csv"))))
           /\ IF n < Len(FilesOf("csv"))
              THEN MainRaise("OSError")
              ELSE mpc' = "m_json" /\ UNCHANGED exitBy
    /\ UNCHANGED <<instVars, argVars, pc, fencerVars, rankingVars, result,
                   returned, fetchVars, sitePages, faulted, histVars, outcome,
                   countries, selects, db_config>>
    /\ UNCHANGED obsVars

\* scraper.export_to_json("eurofencing_sample"), then the summary
MJson ==
    /\ mpc = "m_json"
    /\ \E n \in 0..2 :
           /\ files' = files \o SubSeq(FilesOf("json"), 1, Min(n, Len(FilesOf("json"))))
           /\ IF n < Len(FilesOf("json"))
              THEN MainRaise("OSError")
              ELSE mpc' = "m_finally" /\ exitBy' = "return"
    /\ UNCHANGED <<instVars, argVars, pc, fencerVars, rankingVars, result,
                   returned, fetchVars, sitePages, faulted, histVars, outcome,
                   countries, selects, db_config>>
    /\ UNCHANGED obsVars

\* except Exception as e: logger.error(...)
MExcept ==
    /\ mpc = "m_except"
    /\ mpc' = "m_finally"
    /\ UNCHANGED <<instVars, argVars, pc, fencerVars, rankingVars, result,
                   returned, fetchVars, sitePages, faulted, histVars, outcome,
                   countries, files, selects, db_config, exitBy>>
    /\ UNCHANGED obsVars

\* finally: scraper.cleanup()
MFinally ==
    /\ mpc = "m_finally"
    /\ Cleanup
    /\ mpc' = "exit"
    /\ UNCHANGED <<fencers_data, rankings_data, filter_countries, argVars, pc,
                   fencerVars, rankingVars, result, returned, fetchVars,
                   sitePages, faulted, histVars, outcome, countries, files,
                   selects, db_config, exitBy>>
    /\ UNCHANGED <<delays, applied>>

\* A KeyboardInterrupt while main itself waits for the browser: in
\* setup_driver and in get_countries_list, whose "except Exception" does
\* not catch it.
MInterrupt ==
    /\ mpc \in {"m_setup", "m_countries"}
    /\ interrupt' = [at |-> mpc, n |-> Len(requests), r |-> Len(returns)]
    /\ MainRaise("KeyboardInterrupt")
    /\ UNCHANGED <<instVars, argVars, pc, fencerVars, rankingVars, result,
                   returned, fetchVars, sitePages, faulted, requests, returns,
                   completed, abandoned, fetchEnd, outcome, countries, files,
                   selects, db_config>>
    /\ UNCHANGED obsVars

\* The fencer search view: no select at all, only small selects, a select
\* of exactly 50 options, and country selects behind a small one.
SelectFixtures ==
    { <<>>,
      <<[count |-> 3, values |-> <<"men", "women">>]>>,
      <<[count |-> 50, values |-> <<FRA, GER>>]>>,
      <<[count |-> 3, values |-> <<"men", "women">>],
        [count |-> 51, values |-> <<GER, "EU", FRA>>]>>,
      <<[count |-> 60, values |-> <<GER, FRA, QAT, UAE, SAU, "ITA">>]>> }

InitMain ==
    /\ Fresh
    /\ driver = 0
    /\ opened = 0
    /\ live = {}
    /\ filter_countries = <<>>
    /\ call = Fencers
    /\ pc = "idle"
    /\ max_pages = PyNone
    /\ countries_arg = <<>>
    /\ limit_combinations = PyNone
    /\ \E p \in 0..MaxSitePages :
           sitePages = [c \in SiteCountries |-> IF c = FRA THEN p ELSE 0]
    /\ mpc = "m_setup"
    /\ countries = NoList
    /\ selects \in SelectFixtures
    /\ db_config = TRUE

MainSteps ==
    \/ MSetup \/ MCountries \/ MFencers \/ MRankings
    \/ MCsv \/ MJson \/ MExcept \/ MFinally \/ MInterrupt

\* main() sets the driver up before it calls the sweeps, and every exception
\* raised inside their try blocks is caught there: no exception leaves a
\* sweep that main called.
NextMain ==
    \/ MainSteps
    \/ FetchSteps
    \/ FencerSteps
    \/ RankingSteps
    \/ InterruptSleep

SpecMain == InitMain /\ [][NextMain]_vars

\* The runs of main checked for progress: the first select of the search
\* view is not the country select, and the site holds one page of fencers.
InitMainFair ==
    /\ InitMain
    /\ selects # <<>>
    /\ ~IsCountrySelect(selects[1])
    /\ sitePages[FRA] = 1

\* A run of main is one sequential program: it goes on while it can.
FairSpecMain == InitMainFair /\ [][NextMain]_vars /\ WF_vars(NextMain)


(***************************************************************************)
(*            SpecApi: any sequence of calls on one instance               *)
(***************************************************************************)

\* The sessions one instance opens and the cleanup calls that quit one.
MaxSessions == 2
MaxQuits == 2

\* The caller makes its next call when the last one has returned or raised.
NoCallRunning == pc \in {"idle", "done", "raised"}

\* A call starts: the locals of the methods and the history are those of
\* the call that is running.
NewCall(name) ==
    /\ call' = name
    /\ countries_to_scrape' = <<>>
    /\ ci' = 1
    /\ page' = 1
    /\ all_fencers' = <<>>
    /\ gi' = 1 /\ wi' = 1 /\ ai' = 1 /\ si' = 1
    /\ combinations_scraped' = 0
    /\ all_rankings' = <<>>
    /\ result' = <<>>
    /\ returned' = <<>>
    /\ fpc' = "idle"
    /\ rows' = <<>>
    /\ parsed' = <<>>
    /\ table' = <<>>
    /\ faulted' = FALSE
    /\ requests' = <<>>
    /\ returns' = <<>>
    /\ completed' = <<>>
    /\ interrupt' = [at |-> "none", n |-> 0, r |-> 0]
    /\ abandoned' = <<>>
    /\ fetchEnd' = "none"
    /\ delays' = <<>>
    /\ applied' = NoFilters

\* A method that is not a sweep returns or raises.
CallEnds(how) ==
    /\ outcome' = how
    /\ pc' = IF how = "returned" THEN "done" ELSE "raised"

\* scraper.setup_driver()
ASetup ==
    /\ NoCallRunning
    /\ opened < MaxSessions
    /\ NewCall("setup_driver")
    /\ \E o \in SetupDriverOutcomes :
           /\ SetupDriver(o)
           /\ CallEnds(IF o = "ok" THEN "returned" ELSE "WebDriverException")
    /\ UNCHANGED <<fencers_data, rankings_data, filter_countries, max_pages,
                   countries_arg, limit_combinations, sitePages, quits,
                   mainVars>>

\* scraper.get_countries_list(): without a live session the first request
\* raises inside the try block.
ADiscover ==
    /\ NoCallRunning
    /\ NewCall("get_countries_list")
    /\ \E failed \in BOOLEAN :
           /\ driver \notin live => failed
           /\ countries' = GetCountriesList(selects, failed)
           /\ filter_countries' = ConfiguredAfter(selects, failed, filter_countries)
    /\ CallEnds("returned")
    /\ UNCHANGED <<driver, opened, live, fencers_data, rankings_data,
                   max_pages, countries_arg, limit_combinations, sitePages,
                   quits, mpc, files, selects, db_config, exitBy>>

\* scraper.scrape_all_fencers(max_pages=1, countries=["FRA"])
AFencers ==
    /\ NoCallRunning
    /\ NewCall(Fencers)
    /\ max_pages' = 1
    /\ countries_arg' = <<FRA>>
    /\ pc' = "f_setup"
    /\ outcome' = "running"
    /\ UNCHANGED <<instVars, limit_combinations, sitePages, quits, mainVars>>

\* scraper.scrape_all_rankings(limit_combinations=1)
ARankings ==
    /\ NoCallRunning
    /\ NewCall(Rankings)
    /\ limit_combinations' = 1
    /\ pc' = "r_setup"
    /\ outcome' = "running"
    /\ UNCHANGED <<instVars, max_pages, countries_arg, sitePages, quits,
                   mainVars>>

\* scraper.cleanup().  What quit() does on a session that was quit already
\* is the browser library's: it returns or it raises.
ACleanup ==
    /\ NoCallRunning
    /\ Len(quits) < MaxQuits
    /\ NewCall("cleanup")
    /\ Cleanup
    /\ \E how \in {"returned", "WebDriverException"} :
           /\ how = "WebDriverException" => (driver # 0 /\ driver \notin live)
           /\ CallEnds(how)
    /\ UNCHANGED <<fencers_data, rankings_data, filter_countries, max_pages,
                   countries_arg, limit_combinations, sitePages, mainVars>>

\* scraper.export_to_csv() / scraper.export_to_json(): the call gets
\* through n of its writes, and a write that fails raises out of the
\* method.  files holds what this call wrote.
AExport(name, format) ==
    /\ NoCallRunning
    /\ NewCall(name)
    /\ \E n \in 0..2 :
           /\ files' = SubSeq(FilesOf(format), 1, Min(n, Len(FilesOf(format))))
           /\ fencers_data' =
                  BatchAfterExport(fencers_data, n < Len(FilesOf(format)))
           /\ rankings_data' =
                  BatchAfterExport(rankings_data, n < Len(FilesOf(format)))
           /\ CallEnds(IF n < Len(FilesOf(format)) THEN "OSError" ELSE "returned")
    /\ UNCHANGED <<driver, opened, live, filter_countries, max_pages,
                   countries_arg, limit_combinations, sitePages, quits, mpc,
                   countries, selects, db_config, exitBy>>

\* scraper.save_to_database(): returns at once without a configuration;
\* otherwise an exception of the connection or of a statement is logged
\* and nothing is committed.  files holds the batches that were committed.
ASave ==
    /\ NoCallRunning
    /\ NewCall("save_to_database")
    /\ \E failed \in BOOLEAN :
           /\ failed => db_config
           /\ files' = IF db_config /\ ~failed THEN FilesOf("db") ELSE <<>>
           /\ fencers_data' = BatchAfterExport(fencers_data, failed)
           /\ rankings_data' = BatchAfterExport(rankings_data, failed)
    /\ CallEnds("returned")
    /\ UNCHANGED <<driver, opened, live, filter_countries, max_pages,
                   countries_arg, limit_combinations, sitePages, quits, mpc,
                   countries, selects, db_config, exitBy>>

InitApi ==
    /\ Fresh
    /\ driver = 0
    /\ opened = 0
    /\ live = {}
    /\ filter_countries = <<>>
    /\ call = "__init__"
    /\ pc = "idle"
    /\ max_pages = PyNone
    /\ countries_arg = <<>>
    /\ limit_combinations = PyNone
    /\ sitePages = [c \in SiteCountries |-> IF c = FRA THEN 1 ELSE 0]
    /\ mpc = "none"
    /\ countries = NoList
    /\ selects = <<[count |-> 51, values |-> <<GER, "EU", FRA>>]>>
    /\ db_config \in BOOLEAN

ApiCalls ==
    \/ ASetup \/ ADiscover \/ AFencers \/ ARankings \/ ACleanup
    \/ AExport("export_to_csv", "csv") \/ AExport("export_to_json", "json")
    \/ ASave

NextApi ==
    \/ ApiCalls
    \/ FetchSteps
    \/ FencerSteps
    \/ RankingSteps
    \/ InterruptSleep
    \/ InterruptSetup

SpecApi == InitApi /\ [][NextApi]_vars

(***************************************************************************)
(*                     ROW PARSING ON ITS OWN: the row loops               *)
(***************************************************************************)

\* The row loops of scrape_fencers_page and scrape_rankings started on a
\* table the site returned.  The tables are drawn from rows of every length
\* up to MaxCells and from every text of up to MaxLen characters in a
\* numeric cell.
MaxLen == 3
MaxCells == 8
MaxSelects == 5
MaxPageCalled == 3

\* The characters numeric cells are drawn from: a digit, the decimal point,
\* a letter, a sign, a blank, and a superscript two (a digit for isdigit,
\* not for int or float).
Alphabet == {"1", ".", "a", "-", " ", "SUP2"}

RECURSIVE TextsOfLen(_)
TextsOfLen(n) ==
    IF n = 0 THEN {<<>>}
    ELSE {Append(t, ch) : t \in TextsOfLen(n - 1), ch \in Alphabet}

Texts == UNION {TextsOfLen(n) : n \in 0..MaxLen}

Doe == <<"D", "o", "e">>
Jane == <<"J", "a", "n", "e">>
ClubX == <<"C", "l", "u", "b", " ", "X">>
USA == <<"U", "S", "A">>
Licence == <<"1", "2", "3", "4", "5", "6", "7", "8">>
Year1998 == <<"1", "9", "9", "8">>
RightHanded == <<"R">>
One == <<"1">>
GrandPrixParis ==
    <<"G", "r", "a", "n", "d", " ", "P", "r", "i", "x", " ",
      "P", "a", "r", "i", "s">>
Paris == <<"P", "a", "r", "i", "s">>
Senior == <<"S", "e", "n", "i", "o", "r">>
Foil == <<"F", "o", "i", "l">>
SevenFifty == <<"7", ".", "5", "0">>

\* Cells beyond the last one the program reads.
ExtraCells == [i \in 1..MaxCells |-> <<"x">>]

Prefix(cells, n) == SubSeq(cells, 1, Min(n, Len(cells)))

FencerCells(birth_year) ==
    <<Licence, Doe, Jane, ClubX, USA, birth_year, RightHanded>>

RankingCells(rank, coefficient) ==
    <<rank, GrandPrixParis, Paris, Chars(FRA), Senior, Foil, coefficient>>

FencerRows ==
    {Prefix(FencerCells(Year1998) \o ExtraCells, n) : n \in 0..MaxCells}
    \cup {FencerCells(t) : t \in Texts}

RankingRows ==
    {Prefix(RankingCells(One, SevenFifty) \o ExtraCells, n) : n \in 0..MaxCells}
    \cup {RankingCells(t, SevenFifty) : t \in Texts}
    \cup {RankingCells(One, t) : t \in Texts}

\* A table is one row, or that row followed by a well-formed one.
TablesOf(rowSet, good) == {<<r>> : r \in rowSet} \cup {<<r, good>> : r \in rowSet}

ParseRequests(c) ==
    IF c = Fencers
    THEN {[FencerRequest(FRA, 1, 1) EXCEPT !.gender = g] :
             g \in {<<>>, <<"m", "e", "n">>, <<"W", "o", "m", "e", "n">>}}
    ELSE {RankingRequest("men", "foil", "cadet", "2024"),
          RankingRequest("women", "epee", "u23", "2025")}

InitParse ==
    /\ Fresh
    /\ driver = 1 /\ opened = 1 /\ live = {1}
    /\ filter_countries = <<>>
    /\ call \in {Fencers, Rankings}
    /\ max_pages = PyNone
    /\ countries_arg = <<>>
    /\ limit_combinations = PyNone
    /\ pc = IF call = Fencers THEN "f_fetch" ELSE "r_fetch"
    /\ \E n \in {0, 2, 13} :
           sitePages = [c \in SiteCountries |-> IF c = FRA THEN n ELSE 0]
    /\ mpc = "none"
    /\ countries = NoList
    /\ selects = <<>>
    /\ db_config = FALSE

\* The fetch is called and reads the table.
ParseStart ==
    /\ fpc = "idle"
    /\ requests = <<>>
    /\ \E request \in ParseRequests(call) :
         /\ requests' = <<request>>
         /\ \E n \in 0..MaxSelects : applied' = SearchFilters(request, n)
    /\ \E t \in IF call = Fencers
                THEN TablesOf(FencerRows, FencerCells(Year1998))
                ELSE TablesOf(RankingRows, RankingCells(One, SevenFifty)) :
         /\ table' = t
         /\ rows' = t
    /\ parsed' = <<>>
    /\ fpc' = "rows"
    /\ UNCHANGED <<instVars, argVars, pc, fencerVars, rankingVars, result,
                   returned, sitePages, faulted, returns, completed,
                   interrupt, abandoned, fetchEnd, outcome, mainVars>>
    /\ delays' = <<0>>
    /\ UNCHANGED quits

\* scrape_fencers_page(page=p, country="FRA") is called on its own.
ParseCall ==
    /\ fpc = "idle"
    /\ requests = <<>>
    /\ call = Fencers
    /\ \E p \in 1..MaxPageCalled : StartFetch(FencerRequest(FRA, p, 1))
    /\ UNCHANGED <<instVars, argVars, pc, fencerVars, rankingVars, result,
                   returned, sitePages, faulted, returns, completed,
                   interrupt, abandoned, fetchEnd, outcome, mainVars, quits>>

NextParse == ParseStart \/ ParseCall \/ FetchInteract \/ FetchRow \/ FetchReturn

SpecParse == InitParse /\ [][NextParse]_vars


(***************************************************************************)
(*                               PROPERTIES                                *)
(***************************************************************************)

\* The batch the sweep that is running stores on the instance.
StoredBatch == IF call = Fencers THEN fencers_data ELSE rankings_data

\* C1.  scrape_all_rankings(limit_combinations=N), 1 <= N <= number of
\* combinations, never calls scrape_rankings more than N times, and a sweep
\* that ran to its end without an interrupt has called it exactly N times,
\* wherever N falls in the four nested loops.
CombinationCeilingExact ==
    (call = Rankings /\ limit_combinations \in 1..TotalCombinations) =>
        /\ Len(requests) <= limit_combinations
        /\ (pc = "done" /\ interrupt.at = "none") =>
               /\ Len(requests) = limit_combinations
               /\ combinations_scraped = limit_combinations

\* C1 happens: a sweep whose ceiling falls exactly at the end of an age
\* category loop (an outer loop) ended after that many calls.
CeilingAtOuterLoopEnd ==
    /\ call = Rankings
    /\ pc = "done"
    /\ interrupt.at = "none"
    /\ limit_combinations = Len(Seasons) * Len(AgeCategories)
    /\ Len(requests) = limit_combinations

\* Request i goes on with the country of request i - 1.
SameVisit(i) == i > 1 /\ requests[i - 1].visit = requests[i].visit

\* C2.  In scrape_all_fencers the pages of a country are requested as 1, 2,
\* 3, ...; no page of a country is requested after one that came back
\* empty; the paging of a country stops only on an empty page or at the
\* ceiling; and with a ceiling max_pages no page number above it is ever
\* requested.
FencerPagingAsSpecified ==
    call = Fencers =>
        \A i \in 1..Len(requests) :
            /\ requests[i].page =
                   IF SameVisit(i) THEN requests[i - 1].page + 1 ELSE 1
            /\ SameVisit(i) => returns[i - 1] > 0
            /\ (i > 1 /\ ~SameVisit(i)) =>
                   (returns[i - 1] = 0 \/ requests[i - 1].page = max_pages)
            /\ max_pages # PyNone => requests[i].page <= max_pages

\* C3.  After a KeyboardInterrupt arrived at any point of a sweep, the sweep
\* makes no further fetch, does not raise, and returns and stores exactly
\* the records of the fetches that had completed.
InterruptAsSpecified ==
    interrupt.at # "none" =>
        /\ Len(requests) = interrupt.n
        /\ outcome # "KeyboardInterrupt"
        /\ pc = "done" => (returned = completed /\ StoredBatch = completed)

\* C4.  A fetch in which an interaction failed returns an empty list to the
\* sweep, and no exception of it reaches the sweep: the sweep is running or
\* has returned.
FailedFetchIsEmpty ==
    /\ fetchEnd = "fault" => returns[Len(returns)] = 0
    /\ (fetchEnd = "fault" /\ pc = GotPc) => result = <<>>
    /\ faulted => (pc # "raised" /\ outcome \in {"running", "returned"})

\* C4 happens: a fetch failed while it walked the rows of its table, in a
\* sweep that had gathered records before, and returned to the sweep.
FetchFailedAfterRows ==
    /\ fetchEnd = "fault"
    /\ pc = GotPc
    /\ table # <<>>
    /\ completed # <<>>

\* C10 as stated.  An interrupt takes effect only between two fetches: every
\* fetch requested before it had returned, and no parsed row is lost.
InterruptOnlyBetweenFetches ==
    interrupt.at # "none" =>
        (interrupt.n = interrupt.r /\ abandoned = <<>>)

\* C10, amended.  An interrupt takes effect at once, also in the middle of
\* a fetch: the fetch it interrupts never returns, the rows it had parsed
\* are not part of the result, no further fetch is made, and the sweep
\* returns and stores the records of the fetches that had returned.
InterruptTakesEffectAtOnce ==
    interrupt.at = "fetch" =>
        /\ interrupt.n = interrupt.r + 1
        /\ Len(requests) = interrupt.n
        /\ Len(returns) = interrupt.r
        /\ pc \in {StorePc, "done"}
        /\ pc = "done" => (returned = completed /\ StoredBatch = completed)

\* C10 happens: a fetch was interrupted after it had parsed a row, and the
\* sweep returned without that row.
FetchAbandonedWithRows ==
    /\ interrupt.at = "fetch"
    /\ abandoned # <<>>
    /\ pc = "done"
    /\ Len(returned) < Len(completed) + Len(abandoned)


\* get_countries_list was called and main went on from the call.
DiscoveryRan ==
    \/ mpc \in {"m_fencers", "m_in_fencers", "m_in_rankings", "m_json"}
    \/ exitBy \in {"TypeError", "OSError", "return"}

\* C5.  When discovery finds no select with more than 50 options,
\* get_countries_list returns an empty list, main does not abort, and the
\* fencer sweep it then makes is over the default country set.
DiscoveryFallbackAsSpecified ==
    (DiscoveryRan /\ FirstCountrySelect(selects) = 0) =>
        /\ countries = List(<<>>)
        /\ exitBy # "TypeError"
        /\ mpc = "exit" =>
               /\ countries_arg = DefaultCountries
               /\ requests # <<>>

\* C6.  Every run of main that opened a browser session releases it:
\* whichever way the run ends, it reaches its exit with the session quit.
BrowserReleased == (opened > 0) ~> (mpc = "exit" /\ live = {})

\* C6 happens: a run that opened a session and was ended by an exception
\* is at its exit with no session live.
ReleasedAfterException ==
    /\ mpc = "exit"
    /\ opened > 0
    /\ live = {}
    /\ exitBy = "OSError"

\* The rows of the table with at least n cells.
RowsWithCells(n) == {i \in DOMAIN table : Len(table[i]) >= n}

SixCellFencerRow == <<Licence, Doe, Jane, ClubX, USA, Year1998>>

\* C7.  The list a fetch returns holds no record for a fencer row with
\* fewer than 7 cells or a ranking row with fewer than 6: it holds at most
\* one record per row that is long enough, and none at all for the row
\* [12345678, Doe, Jane, Club X, USA, 1998].
ShortRowsYieldNoRecord ==
    fetchEnd = "rows" =>
        /\ Len(result) <=
               Cardinality(RowsWithCells(IF call = Fencers THEN 7 ELSE 6))
        /\ (call = Fencers /\ table = <<SixCellFencerRow>>) => result = <<>>

\* C7 happens: the six-cell fencer row was walked and skipped, and the
\* well-formed row after it gave the only record.
SixCellRowSkipped ==
    /\ fetchEnd = "rows"
    /\ call = Fencers
    /\ table = <<SixCellFencerRow, FencerCells(Year1998)>>
    /\ Len(result) = 1

\* A text of decimal digits only; a text of decimal digits with at most one
\* point among them.
PlainInt(t) == t # <<>> /\ \A i \in DOMAIN t : t[i] \in DecimalDigits
PlainFloat(t) ==
    /\ \E i \in DOMAIN t : t[i] \in DecimalDigits
    /\ \A i \in DOMAIN t : t[i] \in DecimalDigits \cup {"."}
    /\ Cardinality({i \in DOMAIN t : t[i] = "."}) <= 1

\* C8.  Every row with enough cells yields a record, whatever the text of
\* its numeric cell: no row is discarded, and a text that is not a number
\* gives the field the sentinel 0 (0.0 for the coefficient).
NonNumericYieldsSentinel ==
    fetchEnd = "rows" =>
        /\ Len(result) =
               Cardinality(RowsWithCells(IF call = Fencers THEN 7 ELSE 6))
        /\ (call = Fencers /\ Len(table) = 1 /\ Len(table[1]) >= 7
                /\ ~PlainInt(Strip(table[1][6]))) =>
               result[1].birth_year = 0
        /\ (call = Rankings /\ Len(table) = 1 /\ Len(table[1]) >= 7
                /\ ~PlainInt(Strip(table[1][1]))) =>
               result[1].rank = 0
        /\ (call = Rankings /\ Len(table) = 1 /\ Len(table[1]) >= 7
                /\ ~PlainFloat(Strip(table[1][7]))) =>
               result[1].coefficient = [m |-> 0, e |-> 0]

ScenarioRow ==
    <<One, GrandPrixParis, Paris, <<"F", "R", "A">>, Senior, Foil, SevenFifty>>

\* C9.  With the filters men, foil, cadet, 2024 the row [1, Grand Prix
\* Paris, Paris, FRA, Senior, Foil, 7.50] parses to the entry with rank 1,
\* the five texts in cell order, coefficient 7.5 and the four filter values;
\* and every entry of every fetch carries the four filter values of its
\* call unchanged.
ScenarioRowParses ==
    (call = Rankings /\ fetchEnd = "rows") =>
        /\ \A i \in DOMAIN result :
               /\ result[i].season = Request.season
               /\ result[i].weapon = Request.weapon
               /\ result[i].age_group = Request.age_category
               /\ result[i].gender = Request.gender
        /\ (table = <<ScenarioRow>>
                /\ Request = RankingRequest("men", "foil", "cadet", "2024")) =>
               result = <<[rank        |-> 1,
                           competition |-> GrandPrixParis,
                           venue       |-> Paris,
                           nation      |-> <<"F", "R", "A">>,
                           category    |-> Senior,
                           discipline  |-> Foil,
                           coefficient |-> [m |-> 75, e |-> 1],
                           season      |-> "2024",
                           weapon      |-> "foil",
                           age_group   |-> "cadet",
                           gender      |-> "men"]>>

\* C9 happens: the scenario row was parsed under the scenario's filters.
ScenarioRowParsed ==
    /\ call = Rankings
    /\ fetchEnd = "rows"
    /\ table = <<ScenarioRow>>
    /\ Request = RankingRequest("men", "foil", "cadet", "2024")
    /\ Len(result) = 1


\* C11.  In scrape_all_fencers the delay is slept between any two
\* consecutive page requests: two pages of one country, or the last page of
\* a country and the first page of the next.
DelayBetweenPageRequests ==
    call = Fencers =>
        \A i \in 1..(Len(requests) - 1) : delays[i] > 0


\* A file of the batch was written by one of the exports.
Exported(batch) == \E i \in DOMAIN files : files[i].batch = batch

\* C12.  When main was ended by an exception after records had been stored
\* in fencers_data or rankings_data, every batch that holds records was
\* handed to an export before the exit.
AccumulatedRecordsFlushed ==
    (mpc = "exit" /\ exitBy \in {"WebDriverException", "TypeError", "OSError"}) =>
        /\ fencers_data # <<>> => Exported("fencers")
        /\ rankings_data # <<>> => Exported("rankings")


\* C13.  After any sequence of calls on one instance at most one session
\* it opened is live, and a live session is the one self.driver holds.
AtMostOneLiveSession ==
    /\ Cardinality(live) <= 1
    /\ \A sid \in live : sid = driver

\* C14.  cleanup() never raises and never quits a session a second time,
\* whatever was called before it.
CleanupIdempotent ==
    /\ call = "cleanup" => outcome = "returned"
    /\ \A i, j \in DOMAIN quits : i # j => quits[i] # quits[j]


\* The filter names women / names men (and not women), whatever the case.
NamesWomen(gender) == Contains(<<"w", "o", "m", "e", "n">>, Lower(gender))
NamesMen(gender) == Contains(<<"m", "e", "n">>, Lower(gender)) /\ ~NamesWomen(gender)

\* C15.  Every FencerProfile built by scrape_fencers_page carries the
\* gender of the search's filter: 'M' for a filter naming men, 'F' for a
\* filter naming women, the empty string for any other filter.
GenderFollowsFilter ==
    (call = Fencers /\ requests # <<>>) =>
        \A i \in DOMAIN parsed :
            parsed[i].gender = IF NamesMen(Request.gender) THEN <<"M">>
                               ELSE IF NamesWomen(Request.gender) THEN <<"F">>
                               ELSE <<>>


\* The k-th tuple of genders x weapons x age_categories x seasons in
\* lexicographic order, gender outermost and season innermost, as a
\* request without a country filter.
Combination(k) ==
    LET n == k - 1
        s == n % Len(Seasons)
        a == (n \div Len(Seasons)) % Len(AgeCategories)
        w == (n \div (Len(Seasons) * Len(AgeCategories))) % Len(Weapons)
        g == n \div (Len(Seasons) * Len(AgeCategories) * Len(Weapons))
    IN  [gender |-> Genders[g + 1], weapon |-> Weapons[w + 1],
         age_category |-> AgeCategories[a + 1], season |-> Seasons[s + 1],
         country |-> <<>>]

\* C16.  Without a combination ceiling (None or 0) the k-th call of
\* scrape_rankings made by scrape_all_rankings is for the k-th tuple of
\* the product in lexicographic order, without a country, and a sweep that
\* ran to its end without an interrupt has called it for every tuple.
RankingSweepCoversProduct ==
    (call = Rankings /\ ~Truthy(limit_combinations)) =>
        /\ Len(requests) <= TotalCombinations
        /\ \A k \in DOMAIN requests : requests[k] = Combination(k)
        /\ (pc = "done" /\ interrupt.at = "none") =>
               Len(requests) = TotalCombinations

\* C16 happens: a sweep without a ceiling ended after it had called the
\* fetch for every tuple, the last one being the last of every list.
FullProductSwept ==
    /\ call = Rankings
    /\ limit_combinations = PyNone
    /\ pc = "done"
    /\ interrupt.at = "none"
    /\ Len(requests) = TotalCombinations
    /\ requests[1].gender = Genders[1]
    /\ Request.gender = Genders[Len(Genders)]
    /\ Request.season = Seasons[Len(Seasons)]


\* Fetch i came back empty (it failed, or the site had nothing).
CameBackEmpty(i) == i \in DOMAIN returns /\ returns[i] = 0

\* C17 as it was stated: within one sweep no (country, page) pair and no
\* filter combination is requested twice.
CountryPageRequestedOnce ==
    \A i, j \in DOMAIN requests :
        i < j =>
            IF call = Fencers
            THEN <<requests[i].country, requests[i].page>>
                     # <<requests[j].country, requests[j].page>>
            ELSE requests[i] # requests[j]

\* C17.  No fetch is retried: within one sweep each page of each entry of
\* the country list, and each filter combination, is requested at most
\* once; after a fetch that came back empty, failed or not, the fencer
\* sweep goes on with the next entry of the list and the ranking sweep with
\* the next combination.  A country listed twice is swept once per entry.
NoFetchRetried ==
    /\ \A i, j \in DOMAIN requests : i < j => requests[i] # requests[j]
    /\ call = Fencers =>
           \A i \in 2..Len(requests) :
               CameBackEmpty(i - 1) =>
                   /\ requests[i].visit = requests[i - 1].visit + 1
                   /\ requests[i].page = 1
    /\ call = Rankings =>
           \A i \in DOMAIN requests : requests[i] = Combination(i)

\* C17 happens: a fetch failed and returned empty, and the sweep has made
\* its next request, for the same country as the failed one (the country
\* is listed twice).
NextRequestAfterFailure ==
    /\ call = Fencers
    /\ fetchEnd = "fault"
    /\ Len(requests) = Len(returns) + 1
    /\ Len(requests) >= 2
    /\ Request.country = requests[Len(requests) - 1].country


\* The sweep's accumulated collection.
Accumulated == IF call = Fencers THEN all_fencers ELSE all_rankings

\* C18.  At every point of a sweep the accumulated collection is the
\* concatenation, in fetch order, of the lists the fetches have returned
\* (the list just returned is added in the sweep's next statement):
\* nothing is dropped, reordered or deduplicated.
AccumulationIsConcatenation ==
    IF pc \in {"f_got", "r_got"}
    THEN Accumulated \o result = completed
    ELSE Accumulated = completed

\* C18 happens: two fetches returned the same record and the accumulated
\* collection holds it twice.
RecordAccumulatedTwice ==
    /\ Len(returns) >= 2
    /\ returns[1] > 0
    /\ returns[2] > 0
    /\ pc \notin {"f_got", "r_got"}
    /\ Accumulated[1] = Accumulated[returns[1] + 1]


\* C19.  Every RankingEntry built by scrape_rankings is labelled with the
\* filter values that were set, at positions 0, 1, 2, 3, in the search it
\* comes from.
RankingLabelsAreSearchFilters ==
    (call = Rankings /\ requests # <<>>) =>
        \A i \in DOMAIN parsed :
            /\ parsed[i].gender = applied.gender
            /\ parsed[i].weapon = applied.weapon
            /\ parsed[i].age_group = applied.age_category
            /\ parsed[i].season = applied.season


\* The call that has just ended was an export that failed: a write of
\* export_to_csv or export_to_json raised, or save_to_database, with a
\* configuration and records to store, committed nothing.
ExportFailed ==
    \/ call \in {"export_to_csv", "export_to_json"} /\ outcome = "OSError"
    \/ /\ call = "save_to_database"
       /\ db_config
       /\ fencers_data \o rankings_data # <<>>
       /\ files = <<>>

\* C20.  A call of save_to_database, export_to_csv or export_to_json that
\* fails leaves fencers_data and rankings_data as they were before the
\* call: same records, same order.
ExportFailureKeepsBatches ==
    [][ExportFailed' =>
           /\ fencers_data' = fencers_data
           /\ rankings_data' = rankings_data]_vars

\* C20 happens: export_to_csv wrote the fencers file and failed on the
\* rankings file, and both batches are still on the instance.
CsvFailedOnRankings ==
    /\ ExportFailed
    /\ call = "export_to_csv"
    /\ files = <<[format |-> "csv", batch |-> "fencers"]>>
    /\ fencers_data # <<>>
    /\ rankings_data # <<>>


\* The batch of that name on the instance.
BatchNamed(batch) == IF batch = "fencers" THEN fencers_data ELSE rankings_data

\* C21.  A call of export_to_csv or export_to_json writes no file for an
\* empty batch and never two files for one batch, every file it writes
\* has the format of the call, and when it returns it has written one file
\* for each batch that is not empty.
ExportWritesNonEmptyBatches ==
    call \in {"export_to_csv", "export_to_json"} =>
        /\ \A i \in DOMAIN files :
               /\ BatchNamed(files[i].batch) # <<>>
               /\ files[i].format = IF call = "export_to_csv" THEN "csv" ELSE "json"
        /\ \A i, j \in DOMAIN files : i # j => files[i].batch # files[j].batch
        /\ outcome = "returned" =>
               \A batch \in {"fencers", "rankings"} :
                   Exported(batch) <=> BatchNamed(batch) # <<>>

\* C21 happens: export_to_json returned on an instance that holds fencers
\* and no rankings, and wrote the fencers file only.
JsonOfFencersOnly ==
    /\ call = "export_to_json"
    /\ outcome = "returned"
    /\ fencers_data # <<>>
    /\ rankings_data = <<>>
    /\ files = <<[format |-> "json", batch |-> "fencers"]>>


\* The records of a sequence of raw rows under a filter context, as a
\* function of the rows and the context alone.
RECURSIVE RecordsOf(_, _)
RecordsOf(rowSeq, request) ==
    IF rowSeq = <<>> THEN <<>>
    ELSE LET o == IF call = Fencers
                  THEN ParseFencerRow(Head(rowSeq), request.gender)
                  ELSE ParseRankingRow(Head(rowSeq), request.gender,
                                       request.weapon, request.age_category,
                                       request.season)
         IN  (IF o.kind = "record" THEN <<o.rec>> ELSE <<>>)
                 \o RecordsOf(Tail(rowSeq), request)

\* C22.  The records a fetch builds are a function of the raw rows it
\* read and of its filter context, whatever the state of the scraper: in
\* the row loop the records built so far followed by those of the rows
\* left are the records of the whole table, and a fetch that returns from
\* its row loop returns the records of the table.  Parsing the same rows
\* with the same context again therefore gives the same list.
RowParsingIsAFunctionOfRows ==
    /\ fpc = "rows" =>
           parsed \o RecordsOf(rows, Request) = RecordsOf(table, Request)
    /\ (pc \in {"f_got", "r_got"} /\ fetchEnd = "rows") =>
           result = RecordsOf(table, Request)

\* C22 happens: the sweep has parsed the same result page a second time,
\* now with records accumulated, and got the records of the first time.
SameRowsParsedTwice ==
    /\ call = Fencers
    /\ pc = "f_got"
    /\ fetchEnd = "rows"
    /\ Len(returns) = 2
    /\ Request.country = requests[1].country
    /\ Request.page = requests[1].page
    /\ all_fencers # <<>>
    /\ result # <<>>
    /\ result = SubSeq(completed, 1, returns[1])


\* The result view holds no link to the page the fetch was asked for.
NoLinkToRequestedPage ==
    \A i \in DOMAIN PageLinks(Request.country) :
        PageLinks(Request.country)[i] # Request.page

\* C23.  A call of scrape_fencers_page for a page > 1 to which the result
\* view holds no link reads no row of a result page and returns the empty
\* list.
PageWithoutLinkIsEmpty ==
    (call = Fencers /\ requests # <<>> /\ Request.page > 1
         /\ NoLinkToRequestedPage) =>
        /\ fpc # "rows"
        /\ pc = "f_got" => result = <<>>


\* C24.  A sweep called with the ceiling 0 (max_pages=0, or
\* limit_combinations=0) makes no call of its fetch.
ZeroCeilingMakesNoCall ==
    (\/ call = Fencers /\ max_pages = 0
     \/ call = Rankings /\ limit_combinations = 0) =>
        requests = <<>>


\* C25.  A call of scrape_all_fencers with a page ceiling max_pages >= 1
\* never makes more than len(countries) * max_pages page fetches and
\* always ends, whatever the fetches return; when it has returned, its
\* value and fencers_data are the accumulated list.  The call ends by an
\* exception only when its own setup_driver call, before the first fetch,
\* did not complete.
FencerSweepEndsWithinCeiling ==
    /\ [](max_pages >= 1 =>
             /\ Len(requests) <= Len(countries_to_scrape) * max_pages
             /\ pc = "done" =>
                    /\ outcome = "returned"
                    /\ returned = all_fencers
                    /\ fencers_data = all_fencers
             /\ pc = "raised" => requests = <<>>)
    /\ max_pages >= 1 => <>(pc \in {"done", "raised"})

\* C25 happens: every fetch of the sweep returned records, the ceiling
\* alone ended the paging of each of two countries, and the sweep returned.
CeilingEndedEveryCountry ==
    /\ call = Fencers
    /\ pc = "done"
    /\ max_pages >= 1
    /\ Len(countries_to_scrape) = 2
    /\ Len(requests) = Len(countries_to_scrape) * max_pages
    /\ \A i \in DOMAIN returns : returns[i] > 0
    /\ returned = completed


\* The RankingEntry of a six-cell row under the filters of the request:
\* the six cells, stripped, and the coefficient 0.0.
SixCellEntry(cells, request) ==
    [rank        |-> IntCell(Strip(cells[1])).v,
     competition |-> Strip(cells[2]),
     venue       |-> Strip(cells[3]),
     nation      |-> Strip(cells[4]),
     category    |-> Strip(cells[5]),
     discipline  |-> Strip(cells[6]),
     coefficient |-> FloatZero,
     season      |-> request.season,
     weapon      |-> request.weapon,
     age_group   |-> request.age_category,
     gender      |-> request.gender]

\* C26.  Every row of exactly 6 cells that scrape_rankings has read is in
\* the list it returns, as the RankingEntry of its six cells with the
\* coefficient 0.0: the missing seventh cell neither raises nor discards
\* the row.
SixCellRankingRowAccepted ==
    (call = Rankings /\ pc = "r_got" /\ fetchEnd = "rows") =>
        \A i \in DOMAIN table :
            Len(table[i]) = MinRankingCells =>
                \E k \in DOMAIN result :
                    result[k] = SixCellEntry(table[i], Request)

\* C26 happens: the table held one row, of 6 cells, and the fetch
\* returned its entry with the coefficient 0.0.
SixCellRankingRowReturned ==
    /\ call = Rankings
    /\ pc = "r_got"
    /\ fetchEnd = "rows"
    /\ Len(table) = 1
    /\ Len(table[1]) = 6
    /\ Len(result) = 1
    /\ result[1].coefficient = FloatZero
    /\ result[1].discipline = Strip(table[1][6])

=============================================================================
